---- MODULE Spec2Model ----
(***************************************************************************)
(* Model of ProcessKiller.c (mountd process killer).                       *)
(*                                                                         *)
(* C strings are modelled as sequences of one-character strings; the       *)
(* terminating NUL is the position right after the last element.           *)
(* The kernel's /proc tree is the environment: a listing of /proc and, per *)
(* pid, the objects found under /proc/<pid>.                               *)
(***************************************************************************)
EXTENDS Integers, Sequences, FiniteSets, TLC

VARIABLES
    \* ---- KillProcessesWithOpenFiles(mountPoint, action) ----
    mountPoint,  \* argument
    action,      \* argument
    procDir,     \* the d_name's readdir("/proc") returns, in order
    procfs,      \* pid -> what /proc/<pid> holds while the process lives
    exited,      \* pids whose process has exited since the call started
    pc,          \* position of the call
    idx,         \* number of /proc entries readdir has returned
    pid,         \* local: pid of the current entry
    calls,       \* probes called for the current entry, with their results
    examined,    \* history: one record per /proc entry the loop has finished
    signals,     \* history: the kill() calls made
    logs,        \* history: the LOGE/LOGW records emitted
    nOpened,     \* history: handles opened (opendir, fopen, open)
    nClosed,     \* history: handles closed (closedir, fclose, close)
    \* ---- PathMatchesMountPoint(path, mountPoint) on its own ----
    tPath,       \* argument path
    tMount,      \* argument mountPoint
    tCalled,     \* whether the call has returned
    tResult      \* the returned int

scanVars == <<mountPoint, action, procDir, procfs, exited, pc, idx, pid, calls,
              examined, signals, logs, nOpened, nClosed>>
matchVars == <<tPath, tMount, tCalled, tResult>>
vars == <<scanVars, matchVars>>

----------------------------------------------------------------------------
(* Bounds of the model *)

\* longest candidate path enumerated exhaustively for PathMatchesMountPoint
MaxPathLen == 4
\* longest mount point enumerated exhaustively for PathMatchesMountPoint
MaxMountLen == 3
\* most names a listing of /proc holds
MaxEntries == 2

----------------------------------------------------------------------------
(* C strings *)

PATH_MAX == 4096

NUL == "NUL"

\* s[i] with C's 0-based index; the byte after the last character is NUL
CharAt(s, i) == IF i < Len(s) THEN s[i + 1] ELSE NUL

strlen(s) == Len(s)

\* strncmp(s1, s2, n) == 0, comparing byte by byte from index i: stops at the
\* first difference, at a common NUL, or after n bytes
RECURSIVE StrncmpFrom(_, _, _, _)
StrncmpFrom(s1, s2, n, i) ==
    IF i >= n THEN TRUE
    ELSE IF CharAt(s1, i) # CharAt(s2, i) THEN FALSE
    ELSE IF CharAt(s1, i) = NUL THEN TRUE
    ELSE StrncmpFrom(s1, s2, n, i + 1)

strncmpEq(s1, s2, n) == StrncmpFrom(s1, s2, n, 0)

----------------------------------------------------------------------------
(* PathMatchesMountPoint *)

\* a matcher that forgets the boundary check after the prefix
PathMatchesMountPoint_PrefixOnly(path, mp) ==
    LET length == strlen(mp) IN
    IF length > 1 /\ strncmpEq(path, mp, length) THEN 1 ELSE 0

PathMatchesMountPoint(path, mp) ==
    LET length == strlen(mp) IN
    IF length > 1 /\ strncmpEq(path, mp, length)
    THEN IF CharAt(mp, length - 1) = "/"
         THEN 1
         ELSE IF CharAt(path, length) = NUL \/ CharAt(path, length) = "/"
              THEN 1 ELSE 0
    ELSE 0

----------------------------------------------------------------------------
(* Paths used as inputs *)

P_ab    == <<"/", "a", "/", "b">>
P_abS   == <<"/", "a", "/", "b", "/">>
P_abx   == <<"/", "a", "/", "b", "/", "x">>
P_abc   == <<"/", "a", "/", "b", "c">>
P_root  == <<"/">>
P_empty == <<>>

----------------------------------------------------------------------------
(* More of libc *)

Min(a, b) == IF a < b THEN a ELSE b

\* strchr(s, c): the 0-based index of the first c in s, or -1 (a null pointer)
RECURSIVE StrchrFrom(_, _, _)
StrchrFrom(s, c, i) ==
    IF i >= Len(s) THEN -1
    ELSE IF s[i + 1] = c THEN i
    ELSE StrchrFrom(s, c, i + 1)

strchr(s, c) == StrchrFrom(s, c, 0)

\* the C string that starts at index i of s
Tail_(s, i) == SubSeq(s, i + 1, Len(s))

\* the C string held by a buffer whose bytes are b followed by a NUL
CString(b) ==
    LET z == strchr(b, NUL) IN IF z = -1 THEN b ELSE SubSeq(b, 1, z)

\* fgets(buffer, size, file) on the unread rest of a text file: the bytes it
\* stores, at most size - 1 of them, ending after the first newline
FgetsLine(rest, size) ==
    LET nl == strchr(rest, "\n")
        n  == IF nl = -1 THEN Len(rest) ELSE nl + 1
    IN SubSeq(rest, 1, Min(n, size - 1))

isdigit(c) == c \in {"0", "1", "2", "3", "4", "5", "6", "7", "8", "9"}

DigitValue(c) ==
    CASE c = "0" -> 0 [] c = "1" -> 1 [] c = "2" -> 2 [] c = "3" -> 3
      [] c = "4" -> 4 [] c = "5" -> 5 [] c = "6" -> 6 [] c = "7" -> 7
      [] c = "8" -> 8 [] c = "9" -> 9

DigitChar(d) ==
    CASE d = 0 -> "0" [] d = 1 -> "1" [] d = 2 -> "2" [] d = 3 -> "3"
      [] d = 4 -> "4" [] d = 5 -> "5" [] d = 6 -> "6" [] d = 7 -> "7"
      [] d = 8 -> "8" [] d = 9 -> "9"

\* sprintf("%d") of a non-negative int
RECURSIVE FormatInt(_)
FormatInt(n) ==
    IF n < 10 THEN <<DigitChar(n)>>
    ELSE Append(FormatInt(n \div 10), DigitChar(n % 10))

----------------------------------------------------------------------------
(* get_pid *)

\* a get_pid that stops at the first non-digit, as atoi does
RECURSIVE AtoiFrom(_, _, _)
AtoiFrom(s, i, result) ==
    IF CharAt(s, i) = NUL \/ ~isdigit(CharAt(s, i)) THEN result
    ELSE AtoiFrom(s, i + 1, 10 * result + DigitValue(CharAt(s, i)))

get_pid_atoi(s) == AtoiFrom(s, 0, 0)

\* the names of /proc are at most 7 digits long, so result stays an int
RECURSIVE GetPidFrom(_, _, _)
GetPidFrom(s, i, result) ==
    IF CharAt(s, i) = NUL THEN result
    ELSE IF ~isdigit(CharAt(s, i)) THEN -1
    ELSE GetPidFrom(s, i + 1, 10 * result + DigitValue(CharAt(s, i)))

get_pid(s) == GetPidFrom(s, 0, 0)

----------------------------------------------------------------------------
(* The objects of /proc/<pid>, as the system calls see them *)

\* what lstat and readlink find at a path: st is "lnk" (a symbolic link),
\* "notlnk" (another kind of file), "enoent" (lstat fails) or "eread" (lstat
\* finds a link and readlink fails)
Obj(st, target) == [st |-> st, target |-> target]

NoObj == Obj("enoent", <<>>)

Running(p) == p \in DOMAIN procfs /\ p \notin exited

\* whether opendir/fopen/lstat below /proc/<pid> get through to the process
Reachable(p) == Running(p) /\ procfs[p].access

\* /proc/<pid>/fd as opendir and readdir give it: "." and ".." first
Dot == <<".">>
DotDot == <<".", ".">>

FdDirNames(p) ==
    <<Dot, DotDot>> \o [i \in 1..Len(procfs[p].fds) |-> procfs[p].fds[i].name]

\* /proc/<pid>/fd/<name>
FdObj(p, name) ==
    IF ~Reachable(p) THEN NoObj
    ELSE LET hit == {i \in 1..Len(procfs[p].fds) : procfs[p].fds[i].name = name}
         IN IF hit = {} THEN Obj("notlnk", <<>>)
            ELSE procfs[p].fds[CHOOSE i \in hit : TRUE].obj

\* /proc/<pid>/<name> for name cwd, root, exe
LinkObj(p, name) ==
    IF ~Reachable(p) THEN NoObj
    ELSE CASE name = "cwd" -> procfs[p].cwd
           [] name = "root" -> procfs[p].root
           [] name = "exe" -> procfs[p].exe

----------------------------------------------------------------------------
(* ReadSymLink *)

\* a ReadSymLink that does not look at what readlink returned
ReadSymLink_Unchecked(obj) ==
    IF obj.st = "enoent" THEN [ok |-> 0, link |-> <<>>]
    ELSE IF obj.st # "lnk" /\ obj.st # "eread" THEN [ok |-> 0, link |-> <<>>]
    ELSE [ok |-> 1, link |-> SubSeq(obj.target, 1, Min(Len(obj.target), PATH_MAX - 1))]

\* the return value and the bytes left in link
ReadSymLink(obj) ==
    IF obj.st = "enoent" THEN [ok |-> 0, link |-> <<>>]
    ELSE IF obj.st # "lnk" /\ obj.st # "eread" THEN [ok |-> 0, link |-> <<>>]
    ELSE LET length == IF obj.st = "eread" THEN -1
                       ELSE Min(Len(obj.target), PATH_MAX - 1)
         IN IF length <= 0 THEN [ok |-> 0, link |-> <<>>]
            ELSE [ok |-> 1, link |-> SubSeq(obj.target, 1, length)]

----------------------------------------------------------------------------
(* GetProcessName *)

Unknown == <<"?", "?", "?">>

CmdlinePath(p) ==
    <<"/", "p", "r", "o", "c", "/">> \o FormatInt(p)
        \o <<"/", "c", "m", "d", "l", "i", "n", "e">>

\* read() returning -1 makes the code store a NUL at buffer[-1]: undefined
\* behaviour. The builds differ in what the buffer then reads as: the path
\* sprintf left in it, or whatever the stray store damaged.
Garbled == <<"#">>
UndefinedNames(p) == {CmdlinePath(p), Garbled}

\* the name left in buffer, and the descriptors opened and closed;
\* ub is the outcome of the undefined store, used only when it happens
GetProcessName(p, ub) ==
    LET cmd == procfs[p].cmdline IN
    IF ~Running(p) \/ cmd.st = "enoent"
    THEN [name |-> Unknown, opened |-> 0, closed |-> 0]
    ELSE LET length == IF cmd.st = "eio" THEN -1
                       ELSE Min(Len(cmd.bytes), PATH_MAX - 1)
         IN [name   |-> IF length < 0 THEN ub
                        ELSE CString(SubSeq(cmd.bytes, 1, length)),
             opened |-> 1,
             closed |-> 1]

----------------------------------------------------------------------------
(* The probes.  Each returns res (the int returned), logs (the records  *)
(* emitted), opened and closed (the handles opened and closed).         *)

LogRec(sev, p, what, path, name) ==
    [sev |-> sev, pid |-> p, what |-> what, path |-> path, name |-> name]

NoMatch(opened, closed) ==
    [res |-> 0, logs |-> <<>>, opened |-> opened, closed |-> closed]

\* the while loop of CheckFileDescriptorSymLinks from the i-th readdir on
RECURSIVE FdLoop(_, _, _, _, _)
FdLoop(p, mp, ub, names, i) ==
    IF i > Len(names) THEN NoMatch(0, 0)
    ELSE IF names[i] = Dot \/ names[i] = DotDot
         THEN FdLoop(p, mp, ub, names, i + 1)
    ELSE LET r == ReadSymLink(FdObj(p, names[i])) IN
         IF r.ok # 0 /\ PathMatchesMountPoint(r.link, mp) # 0
         THEN LET n == GetProcessName(p, ub) IN
              [res    |-> 1,
               logs   |-> <<LogRec("E", p, "open file", r.link, n.name)>>,
               opened |-> n.opened,
               closed |-> n.closed]
         ELSE FdLoop(p, mp, ub, names, i + 1)

\* a CheckFileDescriptorSymLinks that returns from inside the loop on a
\* match, past the closedir
CheckFileDescriptorSymLinks_Leak(p, mp, ub) ==
    IF ~Reachable(p) \/ ~procfs[p].fdDir THEN NoMatch(0, 0)
    ELSE LET r == FdLoop(p, mp, ub, FdDirNames(p), 1) IN
         [r EXCEPT !.opened = @ + 1,
                   !.closed = @ + (IF r.res # 0 THEN 0 ELSE 1)]

CheckFileDescriptorSymLinks(p, mp, ub) ==
    IF ~Reachable(p) \/ ~procfs[p].fdDir THEN NoMatch(0, 0)
    ELSE LET r == FdLoop(p, mp, ub, FdDirNames(p), 1) IN
         [r EXCEPT !.opened = @ + 1, !.closed = @ + 1]

\* the while loop of CheckFileMaps on the unread rest of the file
RECURSIVE MapsLoop(_, _, _, _)
MapsLoop(p, mp, ub, rest) ==
    IF rest = <<>> THEN NoMatch(0, 0)
    ELSE LET buffer == FgetsLine(rest, PATH_MAX + 100)
             at == strchr(buffer, "/")
         IN IF at # -1 /\ PathMatchesMountPoint(Tail_(buffer, at), mp) # 0
            THEN LET n == GetProcessName(p, ub) IN
                 [res    |-> 1,
                  logs   |-> <<LogRec("E", p, "open file map",
                                      Tail_(buffer, at), n.name)>>,
                  opened |-> n.opened,
                  closed |-> n.closed]
            ELSE MapsLoop(p, mp, ub, Tail_(rest, Len(buffer)))

CheckFileMaps(p, mp, ub) ==
    IF ~Reachable(p) \/ ~procfs[p].mapsFile THEN NoMatch(0, 0)
    ELSE LET r == MapsLoop(p, mp, ub, procfs[p].maps) IN
         [r EXCEPT !.opened = @ + 1, !.closed = @ + 1]

\* a CheckSymLink that logs with LOGE
CheckSymLink_LogE(p, mp, name, message, ub) ==
    LET r == ReadSymLink(LinkObj(p, name)) IN
    IF r.ok # 0 /\ PathMatchesMountPoint(r.link, mp) # 0
    THEN LET n == GetProcessName(p, ub) IN
         [res    |-> 1,
          logs   |-> <<LogRec("E", p, message, mp, n.name)>>,
          opened |-> n.opened,
          closed |-> n.closed]
    ELSE NoMatch(0, 0)

CheckSymLink(p, mp, name, message, ub) ==
    LET r == ReadSymLink(LinkObj(p, name)) IN
    IF r.ok # 0 /\ PathMatchesMountPoint(r.link, mp) # 0
    THEN LET n == GetProcessName(p, ub) IN
         [res    |-> 1,
          logs   |-> <<LogRec("W", p, message, mp, n.name)>>,
          opened |-> n.opened,
          closed |-> n.closed]
    ELSE NoMatch(0, 0)

----------------------------------------------------------------------------
(* Inputs of the scan: mount points, /proc listings and processes *)

ScanMounts == {P_ab, P_abS, P_root}

\* names found in /proc
N_1    == <<"1">>
N_27   == <<"2", "7">>
N_self == <<"s", "e", "l", "f">>
N_4x   == <<"4", "x">>

DirNames == {N_self, N_4x, N_1, N_27}

\* the listings of /proc: up to MaxEntries names, no name twice
Listings ==
    {s \in UNION {[1..k -> DirNames] : k \in 0..MaxEntries} :
        \A i, j \in 1..Len(s) : i # j => s[i] # s[j]}

\* the kernel names a process's directory by its pid in decimal
IsPidName(name) == Len(name) > 0 /\ \A i \in 1..Len(name) : isdigit(name[i])

RECURSIVE DecimalValue(_)
DecimalValue(name) ==
    IF name = <<>> THEN 0
    ELSE 10 * DecimalValue(SubSeq(name, 1, Len(name) - 1))
         + DigitValue(name[Len(name)])

PidsOf(listing) ==
    {DecimalValue(listing[i]) : i \in {j \in 1..Len(listing) : IsPidName(listing[j])}}

Fd(name, obj) == [name |-> name, obj |-> obj]

Cmd(st, bytes) == [st |-> st, bytes |-> bytes]

\* one line of /proc/<pid>/maps: the region's fields, then the path if any
MapsLine(path) == <<"r", " ">> \o path \o <<"\n">>
AnonLine == <<"r", "\n">>

Sh == <<"s", "h", NUL, "-", "c", NUL>>

\* a process with no reference under /a/b
Idle ==
    [access   |-> TRUE,
     fdDir    |-> TRUE,
     fds      |-> <<Fd(<<"0">>, Obj("lnk", P_abc))>>,
     mapsFile |-> TRUE,
     maps     |-> AnonLine \o MapsLine(P_abc),
     cwd      |-> Obj("lnk", P_root),
     root     |-> Obj("lnk", P_root),
     exe      |-> Obj("lnk", P_abc),
     cmdline  |-> Cmd("ok", Sh)]

FdHolder ==
    [Idle EXCEPT !.fds = <<Fd(<<"0">>, Obj("lnk", P_abc)),
                           Fd(<<"1">>, Obj("lnk", P_abx)),
                           Fd(<<"2">>, Obj("lnk", P_ab))>>]

\* descriptors that closed after readdir, or are no links, or do not read
FdFlaky ==
    [Idle EXCEPT !.fds = <<Fd(<<"0">>, Obj("enoent", P_abx)),
                           Fd(<<"1">>, Obj("notlnk", P_abx)),
                           Fd(<<"2">>, Obj("eread", P_abx))>>,
                 !.cwd = Obj("enoent", P_abx),
                 !.root = Obj("eread", P_abx),
                 !.exe = Obj("notlnk", P_abx)]

MapHolder ==
    [Idle EXCEPT !.maps = AnonLine \o MapsLine(P_abx) \o MapsLine(P_abc),
                 !.cmdline = Cmd("ok", <<>>)]

\* maps the file that is the mount point itself
MapExact == [Idle EXCEPT !.maps = AnonLine \o MapsLine(P_ab)]

CwdHolder ==
    [Idle EXCEPT !.cwd = Obj("lnk", P_abx), !.cmdline = Cmd("enoent", <<>>)]

RootHolder ==
    [Idle EXCEPT !.root = Obj("lnk", P_ab), !.cmdline = Cmd("eio", <<>>)]

ExeHolder == [Idle EXCEPT !.exe = Obj("lnk", P_abx)]

\* holds every kind of reference, and /proc/<pid> is not open to the caller
Denied ==
    [FdHolder EXCEPT !.access = FALSE,
                     !.maps = MapsLine(P_abx),
                     !.cwd = Obj("lnk", P_abx)]

\* the fd directory and the maps file do not open; the cwd link reads
NoFiles ==
    [FdHolder EXCEPT !.fdDir = FALSE,
                     !.mapsFile = FALSE,
                     !.maps = MapsLine(P_abx),
                     !.cwd = Obj("lnk", P_abx)]

Profiles == {Idle, FdHolder, FdFlaky, MapHolder, MapExact, CwdHolder,
             RootHolder, ExeHolder, Denied, NoFiles}

----------------------------------------------------------------------------
(* KillProcessesWithOpenFiles *)

\* an || chain without the chroot operand
OrChainNext_SkipRoot(probe, res) ==
    IF res # 0 THEN "act"
    ELSE CASE probe = "fd"   -> "maps"
           [] probe = "maps" -> "cwd"
           [] probe = "cwd"  -> "exe"
           [] probe = "root" -> "exe"
           [] probe = "exe"  -> "readdir"

\* the || chain of the if: where control goes after a probe returned res
OrChainNext(probe, res) ==
    IF res # 0 THEN "act"
    ELSE CASE probe = "fd"   -> "maps"
           [] probe = "maps" -> "cwd"
           [] probe = "cwd"  -> "root"
           [] probe = "root" -> "exe"
           [] probe = "exe"  -> "readdir"

\* an if on action that signals under every action but 2 with SIGTERM
SignalFor_Always(act) == IF act = 2 THEN "SIGKILL" ELSE "SIGTERM"

\* the signal the if/else-if on action sends, "none" when it sends none
SignalFor(act) ==
    IF act = 1 THEN "SIGTERM"
    ELSE IF act = 2 THEN "SIGKILL"
    ELSE "none"

\* the record logged before the kill
SignalLog(act, p) ==
    IF act = 1 THEN <<LogRec("W", p, "Sending SIGHUP", <<>>, <<>>)>>
    ELSE IF act = 2 THEN <<LogRec("E", p, "Sending SIGKILL", <<>>, <<>>)>>
    ELSE <<>>

Entry(name, p, cs, holds) ==
    [name |-> name, pid |-> p, calls |-> cs, holds |-> holds]

\* dir = opendir("/proc"); if (!dir) return;
OpenProc ==
    /\ pc = "open"
    /\ \E ok \in BOOLEAN :
         IF ok THEN /\ pc' = "readdir"
                    /\ nOpened' = nOpened + 1
               ELSE /\ pc' = "done"
                    /\ nOpened' = nOpened
    /\ UNCHANGED <<mountPoint, action, procDir, procfs, exited, idx, pid, calls,
                   examined, signals, logs, nClosed, matchVars>>

\* readdir returns an entry; pid = get_pid(de->d_name); if (pid == -1) continue;
ReadDir ==
    /\ pc = "readdir"
    /\ idx < Len(procDir)
    /\ idx' = idx + 1
    /\ pid' = get_pid(procDir[idx + 1])
    /\ calls' = <<>>
    /\ IF pid' = -1
       THEN /\ pc' = "readdir"
            /\ examined' = Append(examined, Entry(procDir[idx + 1], -1, <<>>, FALSE))
       ELSE /\ pc' = "fd"
            /\ examined' = examined
    /\ UNCHANGED <<mountPoint, action, procDir, procfs, exited, signals, logs,
                   nOpened, nClosed, matchVars>>

\* readdir returns 0: the while loop ends
ReadDirEnd ==
    /\ pc = "readdir"
    /\ idx = Len(procDir)
    /\ pc' = "closedir"
    /\ UNCHANGED <<mountPoint, action, procDir, procfs, exited, idx, pid, calls,
                   examined, signals, logs, nOpened, nClosed, matchVars>>

\* one operand of the || chain has returned r
Probed(probe, r) ==
    /\ calls' = Append(calls, [probe |-> probe, res |-> r.res,
                               reach |-> Reachable(pid)])
    /\ logs' = logs \o r.logs
    /\ nOpened' = nOpened + r.opened
    /\ nClosed' = nClosed + r.closed
    /\ pc' = OrChainNext(probe, r.res)
    /\ examined' = IF pc' = "readdir"
                   THEN Append(examined, Entry(procDir[idx], pid, calls', FALSE))
                   ELSE examined
    /\ UNCHANGED <<mountPoint, action, procDir, procfs, exited, idx, pid,
                   signals, matchVars>>

ProbeFd ==
    /\ pc = "fd"
    /\ \E ub \in UndefinedNames(pid) :
         Probed("fd", CheckFileDescriptorSymLinks(pid, mountPoint, ub))

ProbeMaps ==
    /\ pc = "maps"
    /\ \E ub \in UndefinedNames(pid) :
         Probed("maps", CheckFileMaps(pid, mountPoint, ub))

ProbeCwd ==
    /\ pc = "cwd"
    /\ \E ub \in UndefinedNames(pid) :
         Probed("cwd", CheckSymLink(pid, mountPoint, "cwd", "working directory", ub))

ProbeRoot ==
    /\ pc = "root"
    /\ \E ub \in UndefinedNames(pid) :
         Probed("root", CheckSymLink(pid, mountPoint, "root", "chroot", ub))

ProbeExe ==
    /\ pc = "exe"
    /\ \E ub \in UndefinedNames(pid) :
         Probed("exe", CheckSymLink(pid, mountPoint, "exe", "executable path", ub))

\* the body of the if: kill() by action; its return value is not looked at
Act ==
    /\ pc = "act"
    /\ signals' = IF SignalFor(action) = "none" THEN signals
                  ELSE Append(signals, [pid |-> pid, sig |-> SignalFor(action),
                                        ok |-> Running(pid)])
    /\ logs' = logs \o SignalLog(action, pid)
    /\ examined' = Append(examined, Entry(procDir[idx], pid, calls, TRUE))
    /\ pc' = "readdir"
    /\ UNCHANGED <<mountPoint, action, procDir, procfs, exited, idx, pid, calls,
                   nOpened, nClosed, matchVars>>

\* closedir(dir) and return
CloseProc ==
    /\ pc = "closedir"
    /\ nClosed' = nClosed + 1
    /\ pc' = "done"
    /\ UNCHANGED <<mountPoint, action, procDir, procfs, exited, idx, pid, calls,
                   examined, signals, logs, nOpened, matchVars>>

\* the environment: a process exits while the call runs.  The call observes
\* a process only from the readdir that returns its entry to the end of that
\* loop iteration, so an exit is taken either right before that readdir or
\* at a later step of the iteration; any other moment reads the same.
ProcessExits ==
    /\ \E p \in DOMAIN procfs \ exited :
         /\ \/ pc \in {"fd", "maps", "cwd", "root", "exe", "act"} /\ p = pid
            \/ /\ pc = "readdir"
               /\ idx < Len(procDir)
               /\ IsPidName(procDir[idx + 1])
               /\ p = DecimalValue(procDir[idx + 1])
         /\ exited' = exited \cup {p}
    /\ UNCHANGED <<mountPoint, action, procDir, procfs, pc, idx, pid, calls,
                   examined, signals, logs, nOpened, nClosed, matchVars>>

----------------------------------------------------------------------------
(* The scan as a state machine *)

NoMatchCall ==
    /\ tPath = <<>>
    /\ tMount = <<>>
    /\ tCalled = FALSE
    /\ tResult = 0

Init ==
    /\ mountPoint \in ScanMounts
    /\ action \in 0..2
    /\ procDir \in Listings
    /\ procfs \in [PidsOf(procDir) -> Profiles]
    /\ exited = {}
    /\ pc = "open"
    /\ idx = 0
    /\ pid = -1
    /\ calls = <<>>
    /\ examined = <<>>
    /\ signals = <<>>
    /\ logs = <<>>
    /\ nOpened = 0
    /\ nClosed = 0
    /\ NoMatchCall

Next ==
    \/ OpenProc
    \/ ReadDir
    \/ ReadDirEnd
    \/ ProbeFd
    \/ ProbeMaps
    \/ ProbeCwd
    \/ ProbeRoot
    \/ ProbeExe
    \/ Act
    \/ CloseProc
    \/ ProcessExits

Spec == Init /\ [][Next]_vars

----------------------------------------------------------------------------
(* The matching rule as the specification words it *)

\* the first Len(m) bytes of p equal m
HasPrefix(p, m) == Len(p) >= Len(m) /\ SubSeq(p, 1, Len(m)) = m

MatchRule(p, m) ==
    /\ Len(m) > 1
    /\ HasPrefix(p, m)
    /\ \/ m[Len(m)] = "/"
       \/ Len(p) = Len(m)
       \/ p[Len(m) + 1] = "/"

----------------------------------------------------------------------------
(* Properties of the scan *)

ProbeOrder == <<"fd", "maps", "cwd", "root", "exe">>

ProbeWhats == {"open file", "open file map", "working directory", "chroot",
               "executable path"}

\* the entries of /proc that were handed to the probes
Probed_(e) == e.calls # <<>>

\* the holding decision of an entry: some probe returned true
Decision(e) == \E i \in 1..Len(e.calls) : e.calls[i].res # 0

ProbeLogsOf(p) == SelectSeq(logs, LAMBDA r : r.pid = p /\ r.what \in ProbeWhats)

SignalsTo(p) == SelectSeq(signals, LAMBDA s : s.pid = p)

\* the signals the entries es call for under action act, in order
RECURSIVE ExpectedSignals(_, _)
ExpectedSignals(es, act) ==
    IF es = <<>> THEN <<>>
    ELSE LET e == es[Len(es)]
             before == ExpectedSignals(SubSeq(es, 1, Len(es) - 1), act)
         IN IF Decision(e) /\ act = 1 THEN Append(before, <<e.pid, "SIGTERM">>)
            ELSE IF Decision(e) /\ act = 2 THEN Append(before, <<e.pid, "SIGKILL">>)
            ELSE before

InOrder(cs) ==
    /\ Len(cs) <= 5
    /\ \A i \in 1..Len(cs) : cs[i].probe = ProbeOrder[i]
    /\ \A i \in 1..(Len(cs) - 1) : cs[i].res = 0

\* what probe k returns for pid p on its own, in the present environment
Individually(k, p) ==
    LET ub == Garbled IN
    CASE k = 1 -> CheckFileDescriptorSymLinks(p, mountPoint, ub).res
      [] k = 2 -> CheckFileMaps(p, mountPoint, ub).res
      [] k = 3 -> CheckSymLink(p, mountPoint, "cwd", "working directory", ub).res
      [] k = 4 -> CheckSymLink(p, mountPoint, "root", "chroot", ub).res
      [] k = 5 -> CheckSymLink(p, mountPoint, "exe", "executable path", ub).res

\* C3: the holding decision of a pid is true exactly when one of the five
\* probes returns true for it; the probes run in the order fd, maps, cwd,
\* root, exe and none runs after one has returned true.
C3_Holding ==
    /\ InOrder(calls)
    /\ \A i \in 1..Len(examined) :
         LET e == examined[i] IN
         Probed_(e) =>
           /\ InOrder(e.calls)
           /\ e.holds = (e.calls[Len(e.calls)].res # 0)
           /\ e.holds = Decision(e)
           /\ ~e.holds => Len(e.calls) = 5
           /\ exited = {} =>
                /\ e.holds = (\E k \in 1..5 : Individually(k, e.pid) # 0)
                /\ \A k \in 1..5 :
                     (k <= Len(e.calls)) = (\A j \in 1..(k - 1) : Individually(j, e.pid) = 0)

C3_Witness ==
    /\ pc = "done"
    /\ exited = {}
    /\ \E i, j \in 1..Len(examined) :
         /\ examined[i].holds /\ Len(examined[i].calls) = 3
         /\ ~examined[j].holds /\ Len(examined[j].calls) = 5

\* C4: an entry of /proc is probed exactly when its name is a non-empty
\* string of digits, with the pid its name denotes in decimal; no other
\* entry is probed or signalled.
C4_PidEntries ==
    /\ pc \in {"fd", "maps", "cwd", "root", "exe", "act"} =>
         IsPidName(procDir[idx]) /\ pid = DecimalValue(procDir[idx])
    /\ \A i \in 1..Len(examined) :
         LET e == examined[i] IN
         /\ e.name = procDir[i]
         /\ Probed_(e) = IsPidName(e.name)
         /\ IsPidName(e.name) => e.pid = DecimalValue(e.name) /\ e.pid >= 0
    /\ \A i \in 1..Len(signals) : signals[i].pid \in PidsOf(procDir)
    /\ \A i \in 1..Len(logs) : logs[i].pid \in PidsOf(procDir)

C4_Witness ==
    /\ pc = "done"
    /\ \E i, j \in 1..Len(examined) :
         /\ examined[i].name = N_4x /\ ~Probed_(examined[i])
         /\ examined[j].name = N_27 /\ examined[j].pid = 27 /\ examined[j].holds
    /\ \E i \in 1..Len(signals) : signals[i].pid = 27

\* the lines of a text file, each without its newline
RECURSIVE LinesOf(_)
LinesOf(text) ==
    IF text = <<>> THEN <<>>
    ELSE LET nl == strchr(text, "\n") IN
         IF nl = -1 THEN <<text>>
         ELSE <<SubSeq(text, 1, nl)>> \o LinesOf(Tail_(text, nl + 1))

\* the mapped paths of a maps listing: per line with a '/', the text from it on
MappedPaths(text) ==
    LET ls == LinesOf(text) IN
    {Tail_(ls[i], strchr(ls[i], "/")) :
        i \in {j \in 1..Len(ls) : strchr(ls[j], "/") # -1}}

FdTargets(p) ==
    {procfs[p].fds[i].obj.target :
        i \in {j \in 1..Len(procfs[p].fds) : procfs[p].fds[j].obj.st = "lnk"}}

\* the paths process p references through one kind of reference
ReferencedPaths(p, kind) ==
    CASE kind = "fd"   -> FdTargets(p)
      [] kind = "maps" -> MappedPaths(procfs[p].maps)
      [] kind = "cwd"  -> IF procfs[p].cwd.st = "lnk" THEN {procfs[p].cwd.target} ELSE {}
      [] kind = "root" -> IF procfs[p].root.st = "lnk" THEN {procfs[p].root.target} ELSE {}
      [] kind = "exe"  -> IF procfs[p].exe.st = "lnk" THEN {procfs[p].exe.target} ELSE {}

Kinds == {"fd", "maps", "cwd", "root", "exe"}

\* process p holds a reference under the mount point
HoldsReference(p) ==
    \E kind \in Kinds : \E t \in ReferencedPaths(p, kind) : MatchRule(t, mountPoint)

\* every object of /proc/<pid> opens and reads
Healthy(p) ==
    /\ procfs[p].access /\ procfs[p].fdDir /\ procfs[p].mapsFile
    /\ \A i \in 1..Len(procfs[p].fds) : procfs[p].fds[i].obj.st = "lnk"
    /\ procfs[p].cwd.st = "lnk" /\ procfs[p].root.st = "lnk" /\ procfs[p].exe.st = "lnk"

\* C5: after a completed call with action 2 in a quiesced environment, every
\* process that held a reference under the mount point was sent SIGKILL.
C5_HoldersKilled ==
    (pc = "done" /\ nOpened > 0 /\ action = 2 /\ exited = {}) =>
        \A p \in DOMAIN procfs :
            (Healthy(p) /\ HoldsReference(p)) =>
                \E i \in 1..Len(signals) :
                    signals[i].pid = p /\ signals[i].sig = "SIGKILL"

\* the I/O step of a probe on p failed, whatever the process references
Blocked(p, c) ==
    \/ ~c.reach
    \/ c.probe = "fd" /\ ~procfs[p].fdDir
    \/ c.probe = "maps" /\ ~procfs[p].mapsFile
    \/ c.probe = "cwd" /\ procfs[p].cwd.st # "lnk"
    \/ c.probe = "root" /\ procfs[p].root.st # "lnk"
    \/ c.probe = "exe" /\ procfs[p].exe.st # "lnk"

\* C6: a probe whose I/O step fails reports no match, a descriptor that does
\* not read as a link never makes the fd probe match, no signal goes to a
\* process all of whose probes report no match, at most one kill is made per
\* entry, and a call that opened /proc ends only after every entry of /proc
\* has been examined.
C6_FailuresAbsorbed ==
    /\ \A i \in 1..Len(examined) :
         LET e == examined[i] IN
         /\ \A k \in 1..Len(e.calls) :
              LET c == e.calls[k] IN
              /\ Blocked(e.pid, c) => c.res = 0
              /\ (c.probe = "fd" /\ c.res # 0) =>
                    \E t \in FdTargets(e.pid) : MatchRule(t, mountPoint)
         /\ ~Decision(e) => SignalsTo(e.pid) = <<>>
         /\ Len(SignalsTo(e.pid)) <= 1
    /\ (pc = "done" /\ nOpened > 0) =>
         /\ Len(examined) = Len(procDir)
         /\ \A i \in 1..Len(procDir) : examined[i].name = procDir[i]

C6_Witness ==
    /\ pc = "done"
    /\ Len(examined) = 2
    /\ \E i \in 1..Len(signals) : signals[i].pid = examined[1].pid /\ ~signals[i].ok
    /\ Len(examined[2].calls) = 5
    /\ procfs[examined[2].pid] = FdFlaky

\* C7: the handles closed never exceed the handles opened, and when the call
\* has returned every handle it opened has been closed.
C7_HandlesClosed ==
    /\ nClosed <= nOpened
    /\ pc = "done" => nOpened = nClosed

C7_Witness ==
    /\ pc = "done"
    /\ nOpened >= 4
    /\ \E i \in 1..Len(logs) : logs[i].what = "open file"
    /\ \E i \in 1..Len(examined) :
         examined[i].holds /\ procfs[examined[i].pid] = NoFiles

KindWhat(kind) ==
    CASE kind = "fd"   -> "open file"
      [] kind = "maps" -> "open file map"
      [] kind = "cwd"  -> "working directory"
      [] kind = "root" -> "chroot"
      [] kind = "exe"  -> "executable path"

Severity(kind) == IF kind \in {"fd", "maps"} THEN "E" ELSE "W"

MatchedKind(e) == e.calls[Len(e.calls)].probe

\* the referenced paths of one kind that lie under the mount point (a maps
\* path with or without the newline that ends its line)
OffendingPaths(p, kind) ==
    LET under == {t \in ReferencedPaths(p, kind) : MatchRule(t, mountPoint)} IN
    IF kind = "maps" THEN under \cup {Append(t, "\n") : t \in under} ELSE under

\* the path the record of one kind carries: the link target for an open
\* file, the rest of the maps line with its newline for a map, the mount
\* point for cwd, root and exe
LoggedPaths(p, kind) ==
    CASE kind = "fd"   -> {t \in FdTargets(p) : MatchRule(t, mountPoint)}
      [] kind = "maps" -> {Append(t, "\n") : t \in
                             {u \in MappedPaths(procfs[p].maps) :
                                 MatchRule(Append(u, "\n"), mountPoint)}}
      [] OTHER         -> {mountPoint}

\* one probe record per holding entry, of the right kind and severity, with
\* a path out of paths(pid, kind); none for an entry that does not hold
OneRecordEach(paths(_, _)) ==
    \A i \in 1..Len(examined) :
        LET e == examined[i]
            recs == ProbeLogsOf(e.pid)
        IN Probed_(e) =>
             IF Decision(e)
             THEN /\ Len(recs) = 1
                  /\ recs[1].pid = e.pid
                  /\ recs[1].what = KindWhat(MatchedKind(e))
                  /\ recs[1].sev = Severity(MatchedKind(e))
                  /\ recs[1].path \in paths(e.pid, MatchedKind(e))
             ELSE recs = <<>>

C9_MapsProbe ==
    \A i \in 1..Len(examined) :
        LET e == examined[i] IN
        \A k \in 1..Len(e.calls) :
            LET c == e.calls[k] IN
            (c.probe = "maps" /\ c.reach /\ procfs[e.pid].mapsFile) =>
                (c.res # 0) = (\E t \in MappedPaths(procfs[e.pid].maps) :
                                  MatchRule(t, mountPoint))

\* the label the claim gives a process
ExpectedName(cmd) ==
    IF cmd.st # "ok" \/ cmd.bytes = <<>> THEN Unknown ELSE CString(cmd.bytes)

\* C10: the name in a probe record is "???" when the command line cannot be
\* opened or read or is empty, and else the command line up to its first NUL.
C10_ProcessName ==
    exited = {} =>
        \A i \in 1..Len(logs) :
            logs[i].what \in ProbeWhats =>
                logs[i].name = ExpectedName(procfs[logs[i].pid].cmdline)

----------------------------------------------------------------------------
(* Inputs of the PathMatchesMountPoint specification *)

MatchAlphabet == {"/", "a", "b"}

StringsUpTo(alphabet, n) == UNION {[1..k -> alphabet] : k \in 0..n}

ExamplePaths == {P_ab, P_abS, P_abx, P_abc, P_root, P_empty}
ExampleMounts == {P_ab, P_abS, P_root, P_empty}

MatchPaths == StringsUpTo(MatchAlphabet, MaxPathLen) \cup ExamplePaths
MatchMounts == StringsUpTo(MatchAlphabet, MaxMountLen) \cup ExampleMounts

\* no scan is running
NoScan ==
    /\ mountPoint = <<>>
    /\ action = 0
    /\ procDir = <<>>
    /\ procfs = <<>>
    /\ exited = {}
    /\ pc = "done"
    /\ idx = 0
    /\ pid = -1
    /\ calls = <<>>
    /\ examined = <<>>
    /\ signals = <<>>
    /\ logs = <<>>
    /\ nOpened = 0
    /\ nClosed = 0

InitMatch ==
    /\ NoScan
    /\ tPath \in MatchPaths
    /\ tMount \in MatchMounts
    /\ tCalled = FALSE
    /\ tResult = 0

CallPathMatches ==
    /\ ~tCalled
    /\ tCalled' = TRUE
    /\ tResult' = PathMatchesMountPoint(tPath, tMount)
    /\ UNCHANGED <<tPath, tMount, scanVars>>

NextMatch == CallPathMatches

SpecMatch == InitMatch /\ [][NextMatch]_vars

----------------------------------------------------------------------------
(* C2 *)

\* C2: PathMatchesMountPoint(p, m) is true exactly when length(m) > 1, p
\* starts with m, and m ends with '/' or p[length(m)] is end-of-string or '/';
\* the listed examples for m = "/a/b", "/a/b/", "/" and "" come out as stated.
C2_PathMatch ==
    tCalled =>
        /\ (tResult = 1) = MatchRule(tPath, tMount)
        /\ tResult \in {0, 1}
        /\ (tMount = P_ab /\ tPath \in {P_ab, P_abS, P_abx}) => tResult = 1
        /\ (tMount = P_ab /\ tPath = P_abc) => tResult = 0
        /\ (tMount = P_abS /\ tPath \in {P_abc, P_ab}) => tResult = 0
        /\ (tMount = P_abS /\ tPath = P_abx) => tResult = 1
        /\ tMount \in {P_root, P_empty} => tResult = 0

C2_Witness ==
    /\ tCalled
    /\ tResult = 1
    /\ tMount = P_ab
    /\ tPath = P_abx
====
